---- MODULE Spec2Model ----
(***************************************************************************)
(* State-machine model of the Unitree A1 environment                       *)
(* (loco_mujoco/environments/quadrupeds/unitreeA1.py).                     *)
(*                                                                         *)
(* Units.  Trunk angles and heights are integers in units of 1e-4          *)
(* (0.2793 rad = 2793).  Planar angles (goal direction, trunk rotation)    *)
(* are integers in quarter turns (pi/2), so that cos and sin are exact.    *)
(* Rotation matrices are row-major 9-tuples.  Velocities are in 0.1 m/s.   *)
(* Ground reaction forces are in mN-like units divisible by 1000.          *)
(* Optional values are sequences: <<>> is None, <<v>> is the value v.      *)
(***************************************************************************)
EXTENDS Integers, Sequences, FiniteSets, TLC

VARIABLES
    random_start,      \* self._random_start
    init_step_no,      \* self._init_step_no (optional)
    use_foot_forces,   \* self._use_foot_forces
    setup_random_rot,  \* self.setup_random_rot
    target_velocity,   \* constructor argument default_target_velocity
    trajectories,      \* self.trajectories (optional Trajectory object)
    goal,              \* self._goal: [direction, velocity]
    sim,               \* the simulation state (self._data)
    reward_state,      \* state of self._reward_function
    call,              \* the last operation called, with its inputs
    exc,               \* the exception the last operation raised
    ret                \* what the last operation returned

vars == <<random_start, init_step_no, use_foot_forces, setup_random_rot, target_velocity,
          trajectories, goal, sim, reward_state, call, exc, ret>>

env_vars == <<random_start, init_step_no, use_foot_forces, setup_random_rot, target_velocity,
              trajectories, goal, sim, reward_state>>

----------------------------------------------------------------------------
(* Bounds of the model *)

MaxTraj == 2        \* most trajectories in a trajectory file
MaxLen == 2         \* most samples per trajectory
MaxInitStep == 3    \* largest init_step_no tried
MaxSamples == 2     \* most samples of a trajectory handed to _interpolate_map

----------------------------------------------------------------------------
(* Program constants *)

TrunkListLimit == 2793     \* 0.2793
TrunkTiltLimit == 1920     \* 0.192
TrunkHeightLimit == 2400   \* .24 (the bound is -.24)
GoalVelocityIdx == 43      \* _goal_velocity_idx
GrfDim == 12               \* ground forces: 4 feet x 3
GrfScale == 1000           \* mean_grf.mean / 1000.
DefaultTargetVelocity == 5 \* default_target_velocity=0.5
RotMatDim == 9             \* dir_arrow is a 3x3 matrix
HiddenDims == 2            \* obs[2:]: x and y of the trunk are hidden

----------------------------------------------------------------------------
(* Python values *)

None == <<>>
Some(v) == <<v>>
Val(o) == o[1]

NoExc == [type |-> "None", msg |-> ""]
ValueError(m) == [type |-> "ValueError", msg |-> m]
TypeError(m) == [type |-> "TypeError", msg |-> m]
AssertionError == [type |-> "AssertionError", msg |-> ""]
AttributeError == [type |-> "AttributeError", msg |-> ""]
IndexError == [type |-> "IndexError", msg |-> ""]
UnboundLocalError == [type |-> "UnboundLocalError", msg |-> ""]

\* s[a:b] and s[a:] of Python, 0-based, on a 1-based sequence
Slice(s, a, b) == SubSeq(s, a + 1, b)
From(s, a) == SubSeq(s, a + 1, Len(s))
Zeros(n) == [i \in 1..n |-> 0]

\* a % b and int(a / b) of Python for a >= 0, b > 0
PyMod(a, b) == a % b
PyIntDiv(a, b) == a \div b

----------------------------------------------------------------------------
(* loco_mujoco.utils.math, in quarter turns *)

Cos4(k) == CASE k % 4 = 0 -> 1 [] k % 4 = 1 -> 0 [] k % 4 = 2 -> -1 [] OTHER -> 0
Sin4(k) == CASE k % 4 = 0 -> 0 [] k % 4 = 1 -> 1 [] k % 4 = 2 -> 0 [] OTHER -> -1

\* arctan2(s, c) for (c, s) on the axes, in (-pi, pi]
Atan2Q(s, c) ==
    CASE s = 0 /\ c > 0 -> 0
      [] s > 0 /\ c = 0 -> 1
      [] s = 0 /\ c < 0 -> 2
      [] s < 0 /\ c = 0 -> -1
      [] OTHER -> 0

\* rotation about the vertical axis as a row-major 3x3 matrix
angle2mat_xy(angle) ==
    << Cos4(angle), -Sin4(angle), 0,
       Sin4(angle),  Cos4(angle), 0,
       0,            0,           1 >>

\* the angle of a rotation about the vertical axis: arctan2(mat[1,0], mat[0,0])
mat2angle_xy(mat) == Atan2Q(mat[4], mat[1])

\* ((angle + pi) % 2 pi) - pi
transform_angle_2pi(angle) == ((angle + 2) % 4) - 2

----------------------------------------------------------------------------
(* The observation layout *)

observation_spec ==
    << "q_trunk_tx", "q_trunk_ty", "q_trunk_tz", "q_trunk_rotation",
       "q_trunk_list", "q_trunk_tilt",
       "q_FR_hip_joint", "q_FR_thigh_joint", "q_FR_calf_joint",
       "q_FL_hip_joint", "q_FL_thigh_joint", "q_FL_calf_joint",
       "q_RR_hip_joint", "q_RR_thigh_joint", "q_RR_calf_joint",
       "q_RL_hip_joint", "q_RL_thigh_joint", "q_RL_calf_joint",
       "dq_trunk_tx", "dq_trunk_ty", "dq_trunk_tz", "dq_trunk_rotation",
       "dq_trunk_list", "dq_trunk_tilt",
       "dq_FR_hip_joint", "dq_FR_thigh_joint", "dq_FR_calf_joint",
       "dq_FL_hip_joint", "dq_FL_thigh_joint", "dq_FL_calf_joint",
       "dq_RR_hip_joint", "dq_RR_thigh_joint", "dq_RR_calf_joint",
       "dq_RL_hip_joint", "dq_RL_thigh_joint", "dq_RL_calf_joint",
       "dir_arrow" >>

\* obs_helper.obs_idx_map[key][0]: every entry before dir_arrow has one dimension
ObsIdx(key) == (CHOOSE i \in 1..Len(observation_spec) : observation_spec[i] = key) - 1

\* number of dimensions of the observation the helper builds
ObsDim == ObsIdx("dir_arrow") + RotMatDim

\* LocoEnv._get_idx(key)[0]: the index once x and y are removed
GetIdx(key) == ObsIdx(key) - HiddenDims

\* LocoEnv._get_from_obs(obs, [key])[0] on an observation without x and y
GetFromObs(obs, key) == obs[GetIdx(key) + 1]

----------------------------------------------------------------------------
(* _has_fallen *)

\* variant: the bounds themselves count as fallen
trunk_list_condition_closed(obs) ==
    GetFromObs(obs, "q_trunk_list") <= -TrunkListLimit
        \/ GetFromObs(obs, "q_trunk_list") >= TrunkListLimit

trunk_list_condition(obs) ==
    GetFromObs(obs, "q_trunk_list") < -TrunkListLimit
        \/ GetFromObs(obs, "q_trunk_list") > TrunkListLimit

trunk_tilt_condition(obs) ==
    GetFromObs(obs, "q_trunk_tilt") < -TrunkTiltLimit
        \/ GetFromObs(obs, "q_trunk_tilt") > TrunkTiltLimit

trunk_height_condition(obs) == GetFromObs(obs, "q_trunk_tz") < -TrunkHeightLimit

trunk_condition(obs) ==
    trunk_list_condition(obs) \/ trunk_tilt_condition(obs) \/ trunk_height_condition(obs)

\* one decimal digit as text
Digit(d) ==
    CASE d = 0 -> "0" [] d = 1 -> "1" [] d = 2 -> "2" [] d = 3 -> "3" [] d = 4 -> "4"
      [] d = 5 -> "5" [] d = 6 -> "6" [] d = 7 -> "7" [] d = 8 -> "8" [] d = 9 -> "9"

\* a natural number as text
RECURSIVE Decimal(_)
Decimal(n) == IF n < 10 THEN Digit(n) ELSE Decimal(n \div 10) \o Digit(n % 10)

\* "%f" % v for a value v given in units of 1e-4: six digits after the point
FormatF(v) ==
    LET a == IF v < 0 THEN -v ELSE v
        f == a % 10000
    IN  (IF v < 0 THEN "-" ELSE "") \o Decimal(a \div 10000) \o "."
            \o Digit(f \div 1000) \o Digit((f \div 100) % 10)
            \o Digit((f \div 10) % 10) \o Digit(f % 10) \o "00"

\* the error message built when return_err_msg is true
error_msg(obs) ==
    IF trunk_list_condition(obs) THEN "trunk_list_condition violated.\n"
    ELSE IF trunk_tilt_condition(obs) THEN "trunk_tilt_condition violated.\n"
    ELSE IF trunk_height_condition(obs)
    THEN "trunk_height_condition violated. " \o FormatF(GetFromObs(obs, "q_trunk_tz")) \o " \n"
    ELSE ""

\* _has_fallen(obs, return_err_msg): a boolean, or the pair (boolean, message)
has_fallen(obs, return_err_msg) ==
    IF return_err_msg
    THEN [fallen |-> trunk_condition(obs), msg |-> Some(error_msg(obs))]
    ELSE [fallen |-> trunk_condition(obs), msg |-> None]

----------------------------------------------------------------------------
(* Trajectories.  A Trajectory object holds n_traj trajectories of traj_len *)
(* samples each; sample number idx = traj_no * traj_len + substep_no.  The  *)
(* recorded data are a family of files: the sample bad (optional, the last  *)
(* sample of the file) is a state outside the trunk bounds, the others lie  *)
(* inside or on the bounds.  The files tried have one trajectory or the     *)
(* most, of one sample or the most.                                         *)

TrajFiles ==
    { [n_traj |-> n, traj_len |-> l, bad |-> b] :
        n \in {1, MaxTraj}, l \in {1, MaxLen}, b \in {None} \cup {Some(i) : i \in 0..(MaxTraj * MaxLen - 1)} }

ValidFile(f) == f.bad = None \/ Val(f.bad) = f.n_traj * f.traj_len - 1

\* trunk (tz, list, tilt) of sample idx of a file
TrunkOfSample(f, idx) ==
    IF f.bad = Some(idx)
    THEN CASE (idx + f.n_traj) % 3 = 0 -> [tz |-> 0, list |-> TrunkListLimit + 1, tilt |-> 0]
           [] (idx + f.n_traj) % 3 = 1 -> [tz |-> -TrunkHeightLimit - 1, list |-> 0, tilt |-> 0]
           [] OTHER -> [tz |-> 0, list |-> 0, tilt |-> -TrunkTiltLimit - 1]
    ELSE IF idx % 2 = 0
         THEN [tz |-> 0, list |-> 0, tilt |-> 0]
         ELSE [tz |-> -TrunkHeightLimit, list |-> -TrunkListLimit, tilt |-> TrunkTiltLimit]

\* the sample of a file: the observation of the helper followed by the goal speed
TrajSample(f, traj_no, substep_no) ==
    LET idx == traj_no * f.traj_len + substep_no
        t == TrunkOfSample(f, idx)
    IN  << 0, 0, t.tz, 0, t.list, t.tilt >>
            \o Zeros(ObsIdx("dir_arrow") - 6)
            \o angle2mat_xy(traj_no)
            \o << DefaultTargetVelocity + traj_no >>

\* Trajectory.get_from_sample(sample, key)
get_from_sample(sample, key) ==
    IF key = "dir_arrow" THEN Slice(sample, ObsIdx("dir_arrow"), ObsDim)
    ELSE IF key = "goal_speed" THEN sample[ObsDim + 1]
    ELSE sample[ObsIdx(key) + 1]

\* the attributes of a Trajectory object that setup reads or could read
TrajectoryAttrs == {"trajectory_length", "number_of_trajectories"}

\* the Trajectory object load_trajectory builds from a file
NewTrajectory(f) ==
    [n_traj |-> f.n_traj, traj_len |-> f.traj_len, bad |-> f.bad,
     traj_no |-> 0, substep_no |-> 0]

\* Trajectory.reset_trajectory(substep_no, traj_no): a missing argument (None) is
\* chosen at random (rs, rt); returns the object's new state, the sample, the error
reset_trajectory(tr, substep_no, traj_no, rs, rt) ==
    LET t == IF traj_no = None THEN rt ELSE Val(traj_no)
        s == IF substep_no = None THEN rs ELSE Val(substep_no)
    IN  IF t >= tr.n_traj \/ s >= tr.traj_len
        THEN [exc |-> IndexError, traj |-> tr, sample |-> <<>>]
        ELSE [exc |-> NoExc,
              traj |-> [tr EXCEPT !.traj_no = t, !.substep_no = s],
              sample |-> TrajSample(tr, t, s)]

----------------------------------------------------------------------------
(* The simulation state *)

\* the state of the model after construction (mj_resetData)
DefaultSim ==
    [tz |-> 0, rotation |-> 0, list |-> 0, tilt |-> 0,
     arrow |-> angle2mat_xy(0), mean_grf |-> Zeros(GrfDim)]

\* obs_helper._build_obs(self._data)
build_obs(s) ==
    << 0, 0, s.tz, s.rotation, s.list, s.tilt >>
        \o Zeros(ObsIdx("dir_arrow") - 6)
        \o s.arrow

\* LocoEnv.set_sim_state(sample): joint positions and the site rotation
base_set_sim_state(s, sample) ==
    [s EXCEPT !.tz = sample[ObsIdx("q_trunk_tz") + 1],
              !.rotation = sample[ObsIdx("q_trunk_rotation") + 1],
              !.list = sample[ObsIdx("q_trunk_list") + 1],
              !.tilt = sample[ObsIdx("q_trunk_tilt") + 1],
              !.arrow = Slice(sample, ObsIdx("dir_arrow"), ObsDim)]

\* UnitreeA1.set_sim_state(sample): the goal velocity is removed first
set_sim_state(s, sample) == base_set_sim_state(s, Slice(sample, 0, Len(sample) - 1))

\* _set_goal_arrow: the arrow follows the goal direction and the trunk rotation
set_goal_arrow(s, g) == [s EXCEPT !.arrow = angle2mat_xy(g.direction + s.rotation)]

\* rotate_obs(sample, angle, idx_rot, idx_xvel, idx_yvel): rotation about the
\* vertical axis; the planar velocities of the recorded samples are zero
rotate_obs(sample, angle) ==
    [sample EXCEPT ![ObsIdx("q_trunk_rotation") + 1] = @ + angle]

----------------------------------------------------------------------------
(* setup *)

\* GoalDirectionVelocity.set_goal(direction, velocity)
set_goal(direction, velocity) == [direction |-> direction, velocity |-> velocity]

\* `not self.trajectories`: None is falsy, a Trajectory object is truthy
NoTrajectories(tr) == tr = None

\* `elif self._init_step_no:`: None and 0 are falsy
Truthy(isn) == isn # None /\ Val(isn) # 0

\* variant: a stub that returns without raising
init_sim_from_obs_stub(obs) == NoExc

\* _init_sim_from_obs(obs)
init_sim_from_obs(obs) ==
    TypeError("Initializing from observation is currently not supported in this environment. ")

\* variant: the initial step is tested for truth in the second clause
SetupGuardStepTruthy(tr, rs, isn) ==
    IF NoTrajectories(tr) /\ rs
    THEN ValueError("Random start not possible without trajectory data.")
    ELSE IF NoTrajectories(tr) /\ Truthy(isn)
    THEN ValueError("Setting an initial step is not possible without trajectory data.")
    ELSE IF isn # None /\ rs
    THEN ValueError("Either use a random start or set an initial step, not both.")
    ELSE NoExc

\* variant: the initial step is tested for truth in the third clause
SetupGuardBothTruthy(tr, rs, isn) ==
    IF NoTrajectories(tr) /\ rs
    THEN ValueError("Random start not possible without trajectory data.")
    ELSE IF NoTrajectories(tr) /\ isn # None
    THEN ValueError("Setting an initial step is not possible without trajectory data.")
    ELSE IF Truthy(isn) /\ rs
    THEN ValueError("Either use a random start or set an initial step, not both.")
    ELSE NoExc

\* variant: missing trajectory data is an error whatever the options
SetupGuardNeedsData(tr, rs, isn) ==
    IF NoTrajectories(tr)
    THEN ValueError("Random start not possible without trajectory data.")
    ELSE IF isn # None /\ rs
    THEN ValueError("Either use a random start or set an initial step, not both.")
    ELSE NoExc

\* the guard clauses of setup(None)
SetupGuard(tr, rs, isn) ==
    IF NoTrajectories(tr) /\ rs
    THEN ValueError("Random start not possible without trajectory data.")
    ELSE IF NoTrajectories(tr) /\ isn # None
    THEN ValueError("Setting an initial step is not possible without trajectory data.")
    ELSE IF isn # None /\ rs
    THEN ValueError("Either use a random start or set an initial step, not both.")
    ELSE NoExc

\* np.random.uniform(0, 2 * np.pi), in quarter turns
RandomAngles == 0..3

\* the random choices one call of setup may draw
SetupChoices(tr) ==
    IF tr = None THEN { [s |-> 0, t |-> 0, angle |-> 0] }
    ELSE { [s |-> s, t |-> t, angle |-> a] :
             s \in 0..(tr.traj_len - 1), t \in 0..(tr.n_traj - 1), a \in RandomAngles }

\* the sample setup(None) initialises from, with trajectories loaded
SetupSample(tr, rs, isn, srr, c) ==
    IF rs
    THEN LET r == reset_trajectory(tr, None, None, c.s, c.t)
         IN  IF r.exc = NoExc /\ srr
             THEN [r EXCEPT !.sample = rotate_obs(@, c.angle)]
             ELSE r
    ELSE IF Truthy(isn)
    THEN LET traj_len == tr.traj_len
             n_traj == tr.n_traj
         IN  IF "nnumber_of_trajectories" \notin TrajectoryAttrs
             THEN [exc |-> AttributeError, traj |-> tr, sample |-> <<>>]
             ELSE IF ~(Val(isn) <= traj_len * n_traj)
             THEN [exc |-> AssertionError, traj |-> tr, sample |-> <<>>]
             ELSE reset_trajectory(tr, Some(PyMod(Val(isn), traj_len)),
                                   Some(PyIntDiv(Val(isn), traj_len)), c.s, c.t)
    ELSE LET r == reset_trajectory(tr, Some(0), None, c.s, c.t)
         IN  IF r.exc = NoExc /\ srr
             THEN [r EXCEPT !.sample = rotate_obs(@, c.angle)]
             ELSE r

\* setup(obs) on an environment [tr, goal, sim]: the exception and the new state
SetupOutcome(obs, tr, g, s, rs, isn, srr, c) ==
    LET same == [exc |-> NoExc, traj |-> tr, goal |-> g, sim |-> s]
    IN  IF obs # None
        THEN [same EXCEPT !.exc = init_sim_from_obs(Val(obs))]
        ELSE IF SetupGuard(tr, rs, isn) # NoExc
        THEN [same EXCEPT !.exc = SetupGuard(tr, rs, isn)]
        ELSE IF tr # None
        THEN LET r == SetupSample(Val(tr), rs, isn, srr, c)
             IN  IF r.exc # NoExc
                 THEN [same EXCEPT !.exc = r.exc]
                 ELSE [exc |-> NoExc,
                       traj |-> Some(r.traj),
                       goal |-> set_goal(mat2angle_xy(get_from_sample(r.sample, "dir_arrow")),
                                         get_from_sample(r.sample, "goal_speed")),
                       sim |-> set_sim_state(s, r.sample)]
        ELSE same

----------------------------------------------------------------------------
(* Observations *)

\* self._get_idx("dir_arrow"): the indices of the rotation matrix
RotMatIdx == [i \in 1..RotMatDim |-> GetIdx("dir_arrow") + i - 1]

\* _modify_observation_callback(obs, rot_mat_idx, goal_velocity_idx)
modify_observation_callback(obs, rot_mat_idx, goal_velocity_idx) ==
    LET rot_mat == [i \in 1..Len(rot_mat_idx) |-> obs[rot_mat_idx[i] + 1]]
        angle == transform_angle_2pi(mat2angle_xy(rot_mat))
        goal_velocity == obs[goal_velocity_idx + 1]
    IN  Slice(obs, 0, rot_mat_idx[1]) \o << Cos4(angle), Sin4(angle) >> \o << goal_velocity >>

\* _create_observation(obs)
create_observation(obs, g, s, uff) ==
    IF uff
    THEN From(obs, HiddenDims) \o << g.velocity >>
            \o [i \in 1..Len(s.mean_grf) |-> s.mean_grf[i] \div GrfScale]
    ELSE From(obs, HiddenDims) \o << g.velocity >>

\* _modify_observation(obs)
modify_observation(obs) == modify_observation_callback(obs, RotMatIdx, GoalVelocityIdx)

\* self.info.observation_space.low / high: one bound per observation dimension
InfoLow == [i \in 1..ObsDim |-> "low"]
InfoHigh == [i \in 1..ObsDim |-> "high"]

\* _get_observation_space(): the pair (low, high)
get_observation_space(uff) ==
    LET dir_arrow_idx == RotMatIdx
        sim_low == Slice(From(InfoLow, HiddenDims), 0, dir_arrow_idx[1]) \o << "-1", "-1" >> \o << "-inf" >>
        sim_high == Slice(From(InfoHigh, HiddenDims), 0, dir_arrow_idx[1]) \o << "1", "1" >> \o << "inf" >>
    IN  IF uff
        THEN [low |-> sim_low \o [i \in 1..GrfDim |-> "-inf"],
              high |-> sim_high \o [i \in 1..GrfDim |-> "inf"]]
        ELSE [low |-> sim_low, high |-> sim_high]

----------------------------------------------------------------------------
(* create_dataset *)

DefaultIgnoreKeys == << "q_trunk_tx", "q_trunk_ty" >>

\* a sample without the entries of the ignored keys
RemoveKeys(sample, ignore_keys) ==
    LET rm == { ObsIdx(ignore_keys[i]) + 1 : i \in 1..Len(ignore_keys) }
    IN  SelectSeq([i \in 1..Len(sample) |-> <<i, sample[i]>>], LAMBDA p : p[1] \notin rm)

Values(pairs) == [i \in 1..Len(pairs) |-> pairs[i][2]]

\* Trajectory.create_dataset: every sample of every trajectory, without the
\* ignored keys, passed through the state callback
TrajDataset(tr, ignore_keys) ==
    [states |->
        [k \in 1..(tr.n_traj * tr.traj_len) |->
            modify_observation_callback(
                Values(RemoveKeys(TrajSample(tr, (k - 1) \div tr.traj_len, (k - 1) % tr.traj_len),
                                  ignore_keys)),
                RotMatIdx, GoalVelocityIdx)]]

\* variant: only the first state is looked at
FirstFallenHead(states) ==
    IF Len(states) > 0 /\ has_fallen(states[1], TRUE).fallen THEN Some(1) ELSE None

\* the loop over dataset["states"]: the first state that has fallen, if any
FirstFallen(states) ==
    IF \E i \in 1..Len(states) : has_fallen(states[i], TRUE).fallen
    THEN Some(CHOOSE i \in 1..Len(states) :
                /\ has_fallen(states[i], TRUE).fallen
                /\ \A j \in 1..(i - 1) : ~has_fallen(states[j], TRUE).fallen)
    ELSE None

\* variant: without the else branch, `return dataset` finds no dataset
CreateDatasetOutcomeNoElse(tr, ignore_keys) ==
    LET ik == IF ignore_keys = None THEN DefaultIgnoreKeys ELSE Val(ignore_keys)
    IN  IF tr # None
        THEN LET dataset == TrajDataset(Val(tr), ik)
                 bad == FirstFallen(dataset.states)
             IN  IF bad # None
                 THEN [exc |-> ValueError(
                                  "Some of the states in the created dataset are terminal states. "
                                  \o "This should not happen.\n\nViolations:\n"
                                  \o Val(has_fallen(dataset.states[Val(bad)], TRUE).msg)),
                       ret |-> None]
                 ELSE [exc |-> NoExc, ret |-> Some(dataset)]
        ELSE [exc |-> UnboundLocalError, ret |-> None]

\* create_dataset(ignore_keys): the exception and the dataset returned
CreateDatasetOutcome(tr, ignore_keys) ==
    LET ik == IF ignore_keys = None THEN DefaultIgnoreKeys ELSE Val(ignore_keys)
    IN  IF tr # None
        THEN LET dataset == TrajDataset(Val(tr), ik)
                 bad == FirstFallen(dataset.states)
             IN  IF bad # None
                 THEN [exc |-> ValueError(
                                  "Some of the states in the created dataset are terminal states. "
                                  \o "This should not happen.\n\nViolations:\n"
                                  \o Val(has_fallen(dataset.states[Val(bad)], TRUE).msg)),
                       ret |-> None]
                 ELSE [exc |-> NoExc, ret |-> Some(dataset)]
        ELSE [exc |-> ValueError("No trajectory was passed to the environment. "
                                \o "To create a dataset pass a trajectory first."), ret |-> None]

----------------------------------------------------------------------------
(* generate *)

valid_tasks == {"simple", "hard"}
valid_data_types == {"real"}

\* check_validity_task_mode_dataset(name, task, None, dataset_type, tasks, modes, data_types)
check_validity_task_mode_dataset(task, dataset_type) ==
    IF task \notin valid_tasks THEN ValueError("invalid task")
    ELSE IF dataset_type \notin valid_data_types THEN ValueError("invalid dataset type")
    ELSE NoExc

\* the environment the constructor builds
NewEnv(uff, rs, isn, srr, vel) ==
    [random_start |-> rs, init_step_no |-> isn, use_foot_forces |-> uff,
     setup_random_rot |-> srr, target_velocity |-> vel, trajectories |-> None,
     goal |-> set_goal(0, vel), sim |-> DefaultSim, reward_state |-> "init"]

\* LocoEnv.load_trajectory(traj_params)
load_trajectory(env, f) == [env EXCEPT !.trajectories = Some(NewTrajectory(f))]

\* variant: the MDP is returned before the trajectory is loaded
GenerateBodyNoLoad(task, dataset_type, uff, rs, isn, f) ==
    IF task # "simple" /\ task # "hard"
    THEN [exc |-> UnboundLocalError, ret |-> None]
    ELSE [exc |-> NoExc, ret |-> Some(NewEnv(uff, rs, isn, FALSE, DefaultTargetVelocity))]

\* the body of generate after the validity check: the exception and the MDP returned
GenerateBody(task, dataset_type, uff, rs, isn, f) ==
    IF task # "simple" /\ task # "hard"
    THEN [exc |-> UnboundLocalError, ret |-> None]
    ELSE LET mdp == NewEnv(uff, rs, isn, FALSE, DefaultTargetVelocity)
         IN  IF dataset_type = "real"
             THEN [exc |-> NoExc, ret |-> Some(load_trajectory(mdp, f))]
             ELSE IF dataset_type = "perfect"
             THEN [exc |-> ValueError("currently not implemented."), ret |-> None]
             ELSE [exc |-> UnboundLocalError, ret |-> None]

\* generate(task, dataset_type, ..., use_foot_forces, random_start, init_step_no)
GenerateOutcome(task, dataset_type, uff, rs, isn, f) ==
    IF check_validity_task_mode_dataset(task, dataset_type) # NoExc
    THEN [exc |-> check_validity_task_mode_dataset(task, dataset_type), ret |-> None]
    ELSE GenerateBody(task, dataset_type, uff, rs, isn, f)

----------------------------------------------------------------------------
(* Inputs *)

Bool == {TRUE, FALSE}
\* init_step_no: not set, the first step, the largest step tried
InitStepNos == {None, Some(0), Some(MaxInitStep)}
Files == { f \in TrajFiles : ValidFile(f) }
Tasks == {"simple", "hard", "run"}
DatasetTypes == {"real", "perfect"}
IgnoreKeys == {None, Some(<< >>)}

\* the keyword arguments generate is called with: its defaults, and each
\* argument changed
GenerateArgs ==
    { [use_foot_forces |-> FALSE, random_start |-> TRUE, init_step_no |-> None],
      [use_foot_forces |-> TRUE, random_start |-> TRUE, init_step_no |-> None],
      [use_foot_forces |-> FALSE, random_start |-> FALSE, init_step_no |-> None],
      [use_foot_forces |-> FALSE, random_start |-> FALSE, init_step_no |-> Some(0)],
      [use_foot_forces |-> FALSE, random_start |-> FALSE, init_step_no |-> Some(MaxInitStep)] }

\* the other keyword arguments the constructor is called with: its defaults,
\* and each argument changed
ConstructorArgs ==
    { [use_foot_forces |-> FALSE, setup_random_rot |-> FALSE,
       default_target_velocity |-> DefaultTargetVelocity],
      [use_foot_forces |-> TRUE, setup_random_rot |-> FALSE,
       default_target_velocity |-> DefaultTargetVelocity],
      [use_foot_forces |-> FALSE, setup_random_rot |-> TRUE,
       default_target_velocity |-> DefaultTargetVelocity],
      [use_foot_forces |-> FALSE, setup_random_rot |-> FALSE,
       default_target_velocity |-> DefaultTargetVelocity + 1] }

\* the recorded data generate loads for a task: walk_straight.npz holds one
\* direction, walk_8_dir.npz several
GenFiles(task) ==
    { f \in Files : /\ f.bad = None
                    /\ f.traj_len = MaxLen
                    /\ f.n_traj = (IF task = "simple" THEN 1 ELSE MaxTraj) }

\* what the physics engine may leave after one step
StepSims ==
    { [tz |-> 0, rotation |-> p[1], list |-> p[2], tilt |-> 0,
       arrow |-> angle2mat_xy(0), mean_grf |-> [i \in 1..GrfDim |-> p[3]]] :
        p \in { <<1, 0, 2 * GrfScale>>, <<0, TrunkListLimit + 1, 0>> } }

\* the samples set_sim_state is called with directly: the state after
\* construction, and a raised, turned and leaning trunk with a turned arrow
SimSamples ==
    { build_obs(s) \o << DefaultTargetVelocity >> :
        s \in { DefaultSim,
                [DefaultSim EXCEPT !.tz = 100, !.rotation = 2, !.list = 5, !.tilt = -7,
                                   !.arrow = angle2mat_xy(3)] } }

\* the observations setup(obs) is called with
SetupObs == {None, Some(modify_observation(create_observation(build_obs(DefaultSim),
                                                                set_goal(0, DefaultTargetVelocity),
                                                                DefaultSim, FALSE)))}

----------------------------------------------------------------------------
(* The environment as a state machine *)

Init ==
    /\ random_start \in Bool
    /\ init_step_no \in InitStepNos
    /\ \E a \in ConstructorArgs :
          /\ use_foot_forces = a.use_foot_forces
          /\ setup_random_rot = a.setup_random_rot
          /\ target_velocity = a.default_target_velocity
    /\ trajectories = None
    /\ goal = set_goal(0, target_velocity)
    /\ sim = DefaultSim
    /\ reward_state = "init"
    /\ call = [op |-> "init"]
    /\ exc = NoExc
    /\ ret = None

\* mdp.load_trajectory(traj_params): the data replace whatever was loaded before
LoadTrajectory(f) ==
    /\ trajectories' = Some(NewTrajectory(f))
    /\ call' = [op |-> "load_trajectory"]
    /\ exc' = NoExc
    /\ ret' = None
    /\ UNCHANGED <<random_start, init_step_no, use_foot_forces, setup_random_rot,
                   target_velocity, goal, sim, reward_state>>

\* mdp.setup(obs); with obs given the call raises before anything is drawn
Setup(obs) ==
    \E c \in SetupChoices(IF trajectories = None \/ obs # None THEN None
                           ELSE Val(trajectories)) :
        \E o \in { SetupOutcome(obs, trajectories, goal, sim,
                                random_start, init_step_no, setup_random_rot, c) } :
            /\ reward_state' = "reset"
            /\ trajectories' = o.traj
            /\ goal' = o.goal
            /\ sim' = o.sim
            /\ call' = [op |-> "setup", obs |-> obs]
            /\ exc' = o.exc
            /\ ret' = None
            /\ UNCHANGED <<random_start, init_step_no, use_foot_forces, setup_random_rot,
                           target_velocity>>

\* mdp.set_sim_state(sample), called directly
SetSimState(sample) ==
    /\ sim' = set_sim_state(sim, sample)
    /\ call' = [op |-> "set_sim_state"]
    /\ exc' = NoExc
    /\ ret' = None
    /\ UNCHANGED <<random_start, init_step_no, use_foot_forces, setup_random_rot,
                   target_velocity, trajectories, goal, reward_state>>

\* mdp.step(action): the physics, _simulation_post_step, the observation
Step ==
    \E p \in StepSims :
        \E s \in { set_goal_arrow(p, goal) } :
        \E obs \in { create_observation(build_obs(s), goal, s, use_foot_forces) } :
            /\ sim' = s
            /\ reward_state' = "running"
            /\ call' = [op |-> "step"]
            /\ exc' = NoExc
            /\ ret' = [obs |-> modify_observation(obs),
                       absorbing |-> has_fallen(obs, FALSE).fallen]
            /\ UNCHANGED <<random_start, init_step_no, use_foot_forces, setup_random_rot,
                           target_velocity, trajectories, goal>>

\* mdp.create_dataset(ignore_keys)
CreateDataset(ignore_keys) ==
    \E o \in { CreateDatasetOutcome(trajectories, ignore_keys) } :
        /\ call' = [op |-> "create_dataset", ignore_keys |-> ignore_keys]
        /\ exc' = o.exc
        /\ ret' = o.ret
        /\ UNCHANGED env_vars

\* UnitreeA1.generate(task, dataset_type, ...): the returned MDP replaces the environment
Generate(task, dataset_type, uff, rs, isn, f) ==
    \E o \in { GenerateOutcome(task, dataset_type, uff, rs, isn, f) } :
        /\ call' = [op |-> "generate", task |-> task, dataset_type |-> dataset_type]
        /\ exc' = o.exc
        /\ ret' = IF o.ret = None THEN None ELSE Some("mdp")
        /\ IF o.ret = None
           THEN UNCHANGED env_vars
           ELSE /\ random_start' = Val(o.ret).random_start
                /\ init_step_no' = Val(o.ret).init_step_no
                /\ use_foot_forces' = Val(o.ret).use_foot_forces
                /\ setup_random_rot' = Val(o.ret).setup_random_rot
                /\ target_velocity' = Val(o.ret).target_velocity
                /\ trajectories' = Val(o.ret).trajectories
                /\ goal' = Val(o.ret).goal
                /\ sim' = Val(o.ret).sim
                /\ reward_state' = Val(o.ret).reward_state

Next ==
    \/ \E f \in Files : LoadTrajectory(f)
    \/ \E obs \in SetupObs : Setup(obs)
    \/ \E sample \in SimSamples : SetSimState(sample)
    \/ Step
    \/ \E ik \in IgnoreKeys : CreateDataset(ik)
    \/ \E task \in Tasks, dataset_type \in DatasetTypes, a \in GenerateArgs :
            \E f \in GenFiles(task) :
                Generate(task, dataset_type, a.use_foot_forces, a.random_start,
                         a.init_step_no, f)

Spec == Init /\ [][Next]_vars

----------------------------------------------------------------------------
(* _has_fallen as a function of the observation *)

TrunkObs ==
    { create_observation(
          build_obs([DefaultSim EXCEPT !.tz = z, !.list = l, !.tilt = t]),
          set_goal(0, DefaultTargetVelocity), DefaultSim, FALSE) :
        z \in {-TrunkHeightLimit - 1, -TrunkHeightLimit, 0},
        l \in {-TrunkListLimit - 1, -TrunkListLimit, 0, TrunkListLimit, TrunkListLimit + 1},
        t \in {-TrunkTiltLimit - 1, -TrunkTiltLimit, 0, TrunkTiltLimit, TrunkTiltLimit + 1} }

InitFallen ==
    /\ random_start = FALSE
    /\ init_step_no = None
    /\ use_foot_forces = FALSE
    /\ setup_random_rot = FALSE
    /\ target_velocity = DefaultTargetVelocity
    /\ trajectories = None
    /\ goal = set_goal(0, target_velocity)
    /\ sim = DefaultSim
    /\ reward_state = "init"
    /\ call = [op |-> "init"]
    /\ exc = NoExc
    /\ ret = None

\* mdp._has_fallen(obs, return_err_msg)
HasFallen(obs, return_err_msg) ==
    /\ call' = [op |-> "has_fallen", obs |-> obs, return_err_msg |-> return_err_msg]
    /\ exc' = NoExc
    /\ ret' = has_fallen(obs, return_err_msg)
    /\ UNCHANGED env_vars

NextFallen == \E obs \in TrunkObs, return_err_msg \in Bool : HasFallen(obs, return_err_msg)

SpecFallen == InitFallen /\ [][NextFallen]_vars

----------------------------------------------------------------------------
(* Properties *)

SetupNoneCalled == call.op = "setup" /\ call.obs = None
Loaded == trajectories # None

\* C1: setup(None) on an environment without trajectory data raises ValueError
\* whenever random_start is true or init_step_no is not None, and the call
\* changes neither the goal nor the simulation state.
C1_SetupWithoutDataRaises ==
    [][ ( /\ call'.op = "setup" /\ call'.obs = None
          /\ trajectories = None
          /\ (random_start \/ init_step_no # None) )
        => ( exc'.type = "ValueError" /\ goal' = goal /\ sim' = sim ) ]_vars

C1_Witness ==
    /\ SetupNoneCalled
    /\ ~Loaded /\ ~random_start /\ init_step_no = Some(0)
    /\ exc.type = "ValueError"
    /\ sim # DefaultSim

\* C2 as stated: setup(None) with init_step_no set and random_start true raises
\* ValueError with the message 'Either use a random start or set an initial
\* step, not both.', with or without trajectory data.
C2_Original ==
    (SetupNoneCalled /\ init_step_no # None /\ random_start)
        => exc = ValueError("Either use a random start or set an initial step, not both.")

\* C2 amended: setup(None) with init_step_no set (0 included) and random_start
\* true raises ValueError; the message is 'Either use a random start or set an
\* initial step, not both.' when trajectory data is loaded and 'Random start not
\* possible without trajectory data.' when none is; no trajectory is reset and
\* neither the goal nor the simulation state is changed.
C2_ConflictingOptionsRaise ==
    [][ ( /\ call'.op = "setup" /\ call'.obs = None
          /\ init_step_no # None /\ random_start )
        => ( /\ exc'.type = "ValueError"
             /\ exc'.msg = ( IF trajectories # None
                             THEN "Either use a random start or set an initial step, not both."
                             ELSE "Random start not possible without trajectory data." )
             /\ trajectories' = trajectories /\ goal' = goal /\ sim' = sim ) ]_vars

C2_Witness ==
    /\ SetupNoneCalled
    /\ Loaded /\ random_start /\ init_step_no = Some(0)
    /\ exc = ValueError("Either use a random start or set an initial step, not both.")

\* C3: setup(obs) with an observation ends in a TypeError whatever the options
\* and the trajectories, and changes neither the goal nor the simulation state.
C3_SetupFromObsRaises ==
    [][ ( call'.op = "setup" /\ call'.obs # None )
        => ( exc'.type = "TypeError" /\ goal' = goal /\ sim' = sim
             /\ trajectories' = trajectories ) ]_vars

C3_Witness ==
    /\ call.op = "setup" /\ call.obs # None
    /\ Loaded /\ random_start /\ init_step_no # None
    /\ exc.type = "TypeError"

\* C4 as stated: with init_step_no set (0 included), random_start false and
\* trajectories loaded, setup(None) resets the trajectory to sub-step
\* init_step_no mod trajectory_length of trajectory
\* floor(init_step_no / trajectory_length); stated for the step numbers that
\* name a sample of the loaded data.
C4_Original ==
    ( /\ SetupNoneCalled
      /\ Loaded /\ ~random_start /\ init_step_no # None
      /\ Val(init_step_no) < Val(trajectories).n_traj * Val(trajectories).traj_len )
    => ( /\ exc = NoExc
         /\ Val(trajectories).substep_no = Val(init_step_no) % Val(trajectories).traj_len
         /\ Val(trajectories).traj_no = Val(init_step_no) \div Val(trajectories).traj_len )

\* the states of the dataset create_dataset builds for the arguments of the last call
BuiltStates ==
    TrajDataset(Val(trajectories),
                IF call.ignore_keys = None THEN DefaultIgnoreKeys
                ELSE Val(call.ignore_keys)).states

\* C5: create_dataset either raises ValueError and returns nothing, or returns a
\* dataset none of whose states has fallen; it raises whenever a state of the
\* dataset built from the trajectories has fallen.
C5_DatasetHasNoFallenState ==
    call.op = "create_dataset" =>
        /\ \/ exc.type = "ValueError" /\ ret = None
           \/ /\ exc = NoExc /\ ret # None
              /\ \A i \in 1..Len(Val(ret).states) :
                    ~has_fallen(Val(ret).states[i], FALSE).fallen
        /\ ( Loaded /\ \E i \in 1..Len(BuiltStates) : trunk_condition(BuiltStates[i]) )
              => ( exc.type = "ValueError" /\ ret = None )

C5_Witness ==
    /\ call.op = "create_dataset"
    /\ Loaded /\ Val(trajectories).n_traj * Val(trajectories).traj_len > 1
    /\ Val(trajectories).bad # None
    /\ exc.type = "ValueError" /\ ret = None

\* C6: create_dataset on an environment without a trajectory raises ValueError
\* and returns no dataset, whatever ignore_keys is.
C6_DatasetNeedsTrajectory ==
    ( call.op = "create_dataset" /\ ~Loaded )
        => ( exc.type = "ValueError" /\ ret = None )

C6_Witness ==
    /\ call.op = "create_dataset" /\ ~Loaded
    /\ call.ignore_keys # None
    /\ exc.type = "ValueError" /\ ret = None

\* the scaled mean ground forces of the current simulation state
ScaledGrf == [i \in 1..GrfDim |-> sim.mean_grf[i] \div GrfScale]

\* C7 as stated: the observation handed to the agent has the length of the
\* bounds of _get_observation_space, and with use_foot_forces it contains the
\* 12 scaled mean ground reaction forces.
C7_Original ==
    call.op = "step" =>
        /\ Len(ret.obs) = Len(get_observation_space(use_foot_forces).low)
        /\ Len(ret.obs) = Len(get_observation_space(use_foot_forces).high)
        /\ use_foot_forces =>
              /\ Len(ret.obs) >= GrfDim
              /\ From(ret.obs, Len(ret.obs) - GrfDim) = ScaledGrf

\* Without foot forces the observation and its bounds agree in length
\* (index of dir_arrow + 3).
NoFootForcesLengthsAgree ==
    ( call.op = "step" /\ ~use_foot_forces ) =>
        /\ Len(ret.obs) = GetIdx("dir_arrow") + 3
        /\ Len(ret.obs) = Len(get_observation_space(FALSE).low)

\* C8: without trajectory data, with random_start false and init_step_no None,
\* the goal stays at direction 0 and velocity default_target_velocity, and
\* setup(None) neither raises nor changes the goal or the simulation state.
C8_GoalStaysDefault ==
    /\ []( ( ~Loaded /\ ~random_start /\ init_step_no = None )
            => goal = [direction |-> 0, velocity |-> target_velocity] )
    /\ [][ ( /\ call'.op = "setup" /\ call'.obs = None
             /\ trajectories = None /\ ~random_start /\ init_step_no = None )
           => ( exc' = NoExc /\ goal' = goal /\ sim' = sim ) ]_vars

C8_Witness ==
    /\ SetupNoneCalled
    /\ ~Loaded /\ ~random_start /\ init_step_no = None
    /\ exc = NoExc
    /\ sim # DefaultSim
    /\ target_velocity # DefaultTargetVelocity

\* C9: generate returns an environment only for task simple or hard and dataset
\* type real, every environment it returns has a trajectory loaded, and with
\* dataset type perfect it raises and returns nothing.
C9_GenerateReturnsLoadedEnv ==
    call.op = "generate" =>
        /\ ret # None =>
              /\ call.task \in {"simple", "hard"} /\ call.dataset_type = "real"
              /\ exc = NoExc
              /\ trajectories # None
        /\ call.dataset_type = "perfect" => ( exc # NoExc /\ ret = None )

C9_Witness ==
    /\ call.op = "generate" /\ call.task = "hard" /\ call.dataset_type = "real"
    /\ ret # None /\ Loaded

\* the trunk values of the observation of the last _has_fallen call
ObsList == call.obs[GetIdx("q_trunk_list") + 1]
ObsTilt == call.obs[GetIdx("q_trunk_tilt") + 1]
ObsHeight == call.obs[GetIdx("q_trunk_tz") + 1]

\* C10: _has_fallen is true exactly when q_trunk_list is outside
\* [-0.2793, 0.2793], or q_trunk_tilt outside [-0.192, 0.192], or q_trunk_tz
\* below -0.24 (the bounds count as not fallen), with return_err_msg true or false.
C10_HasFallenBounds ==
    call.op = "has_fallen" =>
        ret.fallen = ~( /\ ObsList \in (-TrunkListLimit)..TrunkListLimit
                        /\ ObsTilt \in (-TrunkTiltLimit)..TrunkTiltLimit
                        /\ ObsHeight >= -TrunkHeightLimit )

C10_Witness ==
    /\ call.op = "has_fallen" /\ call.return_err_msg
    /\ ObsList = TrunkListLimit /\ ObsTilt = -TrunkTiltLimit /\ ObsHeight = -TrunkHeightLimit
    /\ ret.fallen = FALSE

----------------------------------------------------------------------------
(* _interpolate_map and _interpolate_remap.  A trajectory is a list with one *)
(* entry per observation key, each entry the sequence of that key's samples; *)
(* the samples of dir_arrow are rotation matrices.  All angles, the trunk    *)
(* orientation included, are in quarter turns here.                          *)

\* _get_interpolate_map_params()
get_interpolate_map_params ==
    [rot_mat_idx |-> ObsIdx("dir_arrow"),
     trunk_orientation_idx |->
        << ObsIdx("q_trunk_rotation"), ObsIdx("q_trunk_list"), ObsIdx("q_trunk_tilt") >>]

\* _get_interpolate_remap_params()
get_interpolate_remap_params ==
    [angle_idx |-> ObsIdx("dir_arrow"),
     trunk_orientation_idx |->
        << ObsIdx("q_trunk_rotation"), ObsIdx("q_trunk_list"), ObsIdx("q_trunk_tilt") >>]

\* `i in trunk_orientation_idx`
InList(i, l) == \E k \in 1..Len(l) : l[k] = i

Abs(x) == IF x < 0 THEN -x ELSE x

\* np.unwrap: the correction of one jump dd between neighbouring samples
PhCorrect(dd) ==
    LET m == ((dd + 2) % 4) - 2
        ddmod == IF m = -2 /\ dd > 0 THEN 2 ELSE m
    IN  IF Abs(dd) < 2 THEN 0 ELSE ddmod - dd

RECURSIVE CumCorrect(_, _)
CumCorrect(p, i) == IF i <= 1 THEN 0 ELSE CumCorrect(p, i - 1) + PhCorrect(p[i] - p[i - 1])

\* np.unwrap(p): no jump between neighbouring samples larger than pi
unwrap(p) == [i \in 1..Len(p) |-> p[i] + CumCorrect(p, i)]

\* variant: the trunk orientation is handed back as it comes, not brought into range
interpolate_remap_raw(traj, params) ==
    LET traj_list == [i \in 1..Len(traj) |-> traj[i]]
    IN  [traj_list EXCEPT ![params.angle_idx + 1] =
            [k \in 1..Len(traj[params.angle_idx + 1]) |->
                angle2mat_xy(traj[params.angle_idx + 1][k])]]

\* _interpolate_map(traj, **interpolate_map_params)
interpolate_map(traj, params) ==
    LET traj_list == [i \in 1..Len(traj) |->
                        IF InList(i - 1, params.trunk_orientation_idx)
                        THEN unwrap(traj[i])
                        ELSE traj[i]]
    IN  [traj_list EXCEPT ![params.rot_mat_idx + 1] =
            [k \in 1..Len(traj[params.rot_mat_idx + 1]) |->
                mat2angle_xy(traj[params.rot_mat_idx + 1][k])]]

\* _interpolate_remap(traj, **interpolate_remap_params)
interpolate_remap(traj, params) ==
    LET traj_list == [i \in 1..Len(traj) |->
                        IF InList(i - 1, params.trunk_orientation_idx)
                        THEN [k \in 1..Len(traj[i]) |-> transform_angle_2pi(traj[i][k])]
                        ELSE traj[i]]
    IN  [traj_list EXCEPT ![params.angle_idx + 1] =
            [k \in 1..Len(traj[params.angle_idx + 1]) |->
                angle2mat_xy(traj[params.angle_idx + 1][k])]]

\* the angles of [-pi, pi] and the directions of the arrow
TrunkAngles == (-2)..2
ArrowAngles == 0..3

\* a trajectory of n samples: the trunk rotation rot, list and tilt derived from
\* it (mirrored, reversed), the height counting the samples, the arrow dirs
InterpTraj(n, rot, dirs) ==
    [i \in 1..Len(observation_spec) |->
        IF i = ObsIdx("q_trunk_rotation") + 1 THEN rot
        ELSE IF i = ObsIdx("q_trunk_list") + 1 THEN [k \in 1..n |-> -rot[k]]
        ELSE IF i = ObsIdx("q_trunk_tilt") + 1 THEN [k \in 1..n |-> rot[n + 1 - k]]
        ELSE IF i = ObsIdx("q_trunk_tz") + 1 THEN [k \in 1..n |-> k]
        ELSE IF i = ObsIdx("dir_arrow") + 1 THEN [k \in 1..n |-> angle2mat_xy(dirs[k])]
        ELSE Zeros(n)]

InterpTrajs ==
    UNION { { InterpTraj(n, rot, dirs) :
                rot \in [1..n -> TrunkAngles], dirs \in [1..n -> ArrowAngles] } :
            n \in 1..MaxSamples }

InitInterp ==
    /\ random_start = FALSE
    /\ init_step_no = None
    /\ use_foot_forces = FALSE
    /\ setup_random_rot = FALSE
    /\ target_velocity = DefaultTargetVelocity
    /\ trajectories = None
    /\ goal = set_goal(0, target_velocity)
    /\ sim = DefaultSim
    /\ reward_state = "init"
    /\ call \in { [op |-> "traj", traj |-> t] : t \in InterpTrajs }
    /\ exc = NoExc
    /\ ret = None

\* UnitreeA1._interpolate_map(traj, **mdp._get_interpolate_map_params())
InterpolateMap ==
    /\ call.op = "traj"
    /\ call' = [op |-> "interpolate_map", traj |-> call.traj]
    /\ exc' = NoExc
    /\ ret' = interpolate_map(call.traj, get_interpolate_map_params)
    /\ UNCHANGED env_vars

\* UnitreeA1._interpolate_remap(mapped, **mdp._get_interpolate_remap_params())
InterpolateRemap ==
    /\ call.op = "interpolate_map"
    /\ call' = [op |-> "interpolate_remap", traj |-> call.traj, mapped |-> ret]
    /\ exc' = NoExc
    /\ ret' = interpolate_remap(ret, get_interpolate_remap_params)
    /\ UNCHANGED env_vars

NextInterp == InterpolateMap \/ InterpolateRemap

SpecInterp == InitInterp /\ [][NextInterp]_vars

\* the entries of a trajectory: the arrow, the trunk orientation, the others
ArrowEntry == ObsIdx("dir_arrow") + 1
TrunkEntries ==
    { ObsIdx("q_trunk_rotation") + 1, ObsIdx("q_trunk_list") + 1, ObsIdx("q_trunk_tilt") + 1 }
OtherEntries == (1..Len(observation_spec)) \ (TrunkEntries \cup {ArrowEntry})

\* every other entry passes through both functions unchanged
OthersPassThrough ==
    \A i \in OtherEntries : call.mapped[i] = call.traj[i] /\ ret[i] = call.mapped[i]

\* C11 as stated: for rotation matrices about the vertical axis and trunk
\* orientation angles in [-pi, pi], _interpolate_remap(_interpolate_map(traj))
\* gives back the same matrices and the same trunk orientation angles, and
\* every other entry passes through both functions unchanged.
C11_Original ==
    call.op = "interpolate_remap" =>
        /\ ret[ArrowEntry] = call.traj[ArrowEntry]
        /\ \A i \in TrunkEntries : ret[i] = call.traj[i]
        /\ OthersPassThrough

\* C11 amended: the round trip gives back the same rotation matrices, and trunk
\* orientation angles equal to the original ones up to a multiple of 2 pi:
\* identical for every angle strictly inside (-pi, pi), while an angle of exactly
\* pi or -pi may come back with the other sign; every other entry passes through
\* both functions unchanged.
C11_RoundTripUpToTurns ==
    call.op = "interpolate_remap" =>
        /\ ret[ArrowEntry] = call.traj[ArrowEntry]
        /\ \A i \in TrunkEntries :
              /\ Len(ret[i]) = Len(call.traj[i])
              /\ \A k \in 1..Len(ret[i]) :
                    /\ (ret[i][k] - call.traj[i][k]) % 4 = 0
                    /\ call.traj[i][k] \in (-1)..1 => ret[i][k] = call.traj[i][k]
        /\ OthersPassThrough

\* a round trip in which unwrap moved a sample by a full turn and the arrow
\* points in a direction whose angle is negative
C11_Witness ==
    /\ call.op = "interpolate_remap"
    /\ \E k \in 1..Len(call.traj[ObsIdx("q_trunk_rotation") + 1]) :
          /\ call.mapped[ObsIdx("q_trunk_rotation") + 1][k]
                # call.traj[ObsIdx("q_trunk_rotation") + 1][k]
          /\ call.traj[ObsIdx("q_trunk_rotation") + 1][k] \in (-1)..1
          /\ call.mapped[ArrowEntry][k] < 0
    /\ ret[ObsIdx("q_trunk_rotation") + 1] = call.traj[ObsIdx("q_trunk_rotation") + 1]

====
